---- MODULE Spec2Model ----
(***************************************************************************)
(* A model of the MCP demo repository:                                     *)
(*   - SimpleMCPServer (simple_mcp_server.py): the JSON-RPC dispatcher;    *)
(*   - FeishuBot (feishu_bot_config.py, http_mcp_server.py): the token     *)
(*     cache, send_message, call_mcp_tool and handle_message.              *)
(*                                                                         *)
(* Python values are tagged records: [t |-> "None"], [t |-> "str", v |-> s]*)
(* [t |-> "int", v |-> n], [t |-> "dict", v |-> f] with f a function from  *)
(* keys to values, [t |-> "list", v |-> seq].  A call either returns a     *)
(* value or raises: [kind |-> "return", value |-> v] or                    *)
(* [kind |-> "raise", exc |-> type, msg |-> m].  The text of an exception  *)
(* is the sequence of its fragments.  TLA+ strings are ASCII, so a         *)
(* character outside ASCII is written as its Python escape: the string     *)
(* "\\u65f6\\u95f4" stands for the two characters U+65F6 U+95F4, and the     *)
(* original is given in the comment beside it.                             *)
(***************************************************************************)
EXTENDS Integers, Sequences, FiniteSets, TLC

VARIABLES
    server,     \* the SimpleMCPServer instance: its fields name and version
    request,    \* the value last passed to SimpleMCPServer.handle_request
    outcome,    \* what that call did: idle, a returned envelope, or a raise
    access_token,       \* FeishuBot._access_token
    token_expire_time,  \* FeishuBot._token_expire_time
    clock,      \* datetime.utcnow(), in seconds since the bot was built
    callers,    \* the coroutines that call into the bot in this run
    calls,      \* per caller: the coroutine running get_access_token or
                \* send_message, where it is suspended, and what it saw
    last_refresh, \* history: the refresh that last stored an expiry
    bot_impl,   \* which file's FeishuBot handled the last event
    event,      \* the event last passed to FeishuBot.handle_message
    router_pc,  \* where handle_message is: idle, at an await, or done
    pending,    \* what handle_message awaits: the tool call or the text
    completion, \* what the completion call did for that event, if called
    mcp_response, \* what the POST to the MCP server came back with, if sent
    reply,      \* what handle_message did: idle, a returned str, or a raise
    tool_calls, \* the (tool_name, arguments) given to call_mcp_tool, in order
    resolver_calls, \* the texts given to get_mcp_json_from_gemini, in order
    client,     \* the mcp_client.py script: where it is and what it holds
    stdin,      \* SimpleMCPServer.run: the lines written to stdin, not yet read
    stdin_closed, \* the writer has closed stdin
    run_pc,     \* where run is: start, reading, processing, stopped
    line,       \* the line run has read and not yet processed
    consumed,   \* history: the request lines read so far, in order
    stdout,     \* what run has printed to stdout, in order
    stderr      \* what run has printed to stderr, in order

serverVars == <<server, request, outcome>>
botVars == <<access_token, token_expire_time, clock, callers, calls, last_refresh>>
routerVars == <<bot_impl, event, router_pc, pending, completion, mcp_response, reply, tool_calls,
                resolver_calls>>
clientVars == <<client>>
runVars == <<stdin, stdin_closed, run_pc, line, consumed, stdout, stderr>>
vars == <<serverVars, botVars, routerVars, clientVars, runVars>>

(***************************************************************************)
(* Python values                                                           *)
(***************************************************************************)
PyNone == [t |-> "None"]
PyStr(s) == [t |-> "str", v |-> s]
PyInt(n) == [t |-> "int", v |-> n]
PyDict(f) == [t |-> "dict", v |-> f]
PyList(s) == [t |-> "list", v |-> s]

EmptyDict == PyDict(<<>>)

Return(v) == [kind |-> "return", value |-> v]
Raise(e, m) == [kind |-> "raise", exc |-> e, msg |-> m]
Idle == [kind |-> "idle"]

\* The exception classes the code can meet that derive from Exception.
ExceptionClasses ==
    {"Exception", "AttributeError", "KeyError", "TypeError",
     "JSONDecodeError", "HTTPStatusError", "ConnectError", "OpenAIError",
     "IndexError", "ConnectionError"}

\* type(x).__name__, as it appears in an AttributeError's text.
TypeName(x) ==
    IF x.t = "None" THEN "NoneType" ELSE x.t

\* f"{x}" for the values the model formats: a str is itself, None is "None".
Format(x) ==
    CASE x.t = "str" -> x.v
      [] x.t = "None" -> "None"
      [] OTHER -> "<" \o x.t \o ">"

\* d.get(key, default): an AttributeError when d has no get (not a dict).
dict_get(d, key, default) ==
    IF d.t # "dict"
    THEN Raise("AttributeError",
               <<"'", TypeName(d), "' object has no attribute 'get'">>)
    ELSE IF key \in DOMAIN d.v THEN Return(d.v[key]) ELSE Return(default)

(***************************************************************************)
(* SimpleMCPServer                                                         *)
(***************************************************************************)
UnknownToolPrefix == "\\u672a\\u77e5\\u5de5\\u5177: "      \* "未知工具: "
UnknownMethodPrefix == "\\u672a\\u77e5\\u65b9\\u6cd5: "    \* "未知方法: "

handle_initialize(self, params) ==
    Return([protocolVersion |-> "2024-11-05",
            capabilities |-> [tools |-> <<>>],
            serverInfo |-> [name |-> self.name, version |-> self.version]])

handle_tools_list_two(self, params) ==
    Return([tools |-> <<[name |-> "say_hi", description |-> "", inputSchema |-> <<>>],
                        [name |-> "get_time", description |-> "", inputSchema |-> <<>>]>>])

handle_tools_list(self, params) ==
    Return([tools |-> <<[name |-> "say_hi",
                         description |->   \* "返回一个简单的问候语"
                             "\\u8fd4\\u56de\\u4e00\\u4e2a\\u7b80\\u5355\\u7684\\u95ee\\u5019\\u8bed",
                         inputSchema |-> [type |-> "object",
                                          properties |-> <<>>,
                                          required |-> <<>>]]>>])

SayHiResult == [content |-> <<[type |-> "text", text |-> "hi"]>>]

handle_tools_call_ci(self, params) ==
    LET tool_name == dict_get(params, "name", PyNone)
        arguments == dict_get(params, "arguments", EmptyDict)
    IN  IF tool_name.kind = "raise" THEN tool_name
        ELSE IF tool_name.value \in {PyStr("say_hi"), PyStr("Say_Hi")}
        THEN Return(SayHiResult)
        ELSE Raise("Exception", <<UnknownToolPrefix, Format(tool_name.value)>>)

handle_tools_call_args(self, params) ==
    LET tool_name == dict_get(params, "name", PyNone)
        arguments == dict_get(params, "arguments", EmptyDict)
    IN  IF tool_name.kind = "raise" THEN tool_name
        ELSE IF tool_name.value = PyStr("say_hi")
        THEN IF arguments.value = EmptyDict
             THEN Return(SayHiResult)
             ELSE Return([content |-> <<[type |-> "text", text |-> "hi"],
                                        [type |-> "text", text |-> "args"]>>])
        ELSE Raise("Exception", <<UnknownToolPrefix, Format(tool_name.value)>>)

handle_tools_call(self, params) ==
    LET tool_name == dict_get(params, "name", PyNone)
        arguments == dict_get(params, "arguments", EmptyDict)
    IN  IF tool_name.kind = "raise" THEN tool_name
        ELSE IF tool_name.value = PyStr("say_hi")
        THEN Return(SayHiResult)
        ELSE Raise("Exception", <<UnknownToolPrefix, Format(tool_name.value)>>)

\* Lines 79-83: the envelope of a handler's result.
ResultEnvelope(request_id, result) ==
    ("jsonrpc" :> "2.0") @@ ("id" :> request_id) @@ ("result" :> result)

ErrorEnvelope_noid(request_id, e) ==
    ("jsonrpc" :> "2.0") @@ ("id" :> PyNone)
        @@ ("error" :> [code |-> -32603, message |-> e.msg])

\* Lines 86-93: the envelope of a caught exception; message is str(e).
ErrorEnvelope(request_id, e) ==
    ("jsonrpc" :> "2.0") @@ ("id" :> request_id)
        @@ ("error" :> [code |-> -32603, message |-> e.msg])

\* Lines 70-77: the method router inside the try block.
Route(self, method, params) ==
    IF method = PyStr("initialize") THEN handle_initialize(self, params)
    ELSE IF method = PyStr("tools/list") THEN handle_tools_list(self, params)
    ELSE IF method = PyStr("tools/call") THEN handle_tools_call(self, params)
    ELSE Raise("Exception", <<UnknownMethodPrefix, Format(method)>>)

\* "except Exception" catches only the exception raised by "raise Exception".
Caught_exact(e) == e.exc = "Exception"

\* Line 85, "except Exception as e": every class deriving from Exception.
Caught(e) == e.exc \in ExceptionClasses

handle_request(self, req) ==
    LET method == dict_get(req, "method", PyNone)
        params == dict_get(req, "params", EmptyDict)
        request_id == dict_get(req, "id", PyNone)
    IN  IF method.kind = "raise" THEN method   \* line 65, outside the try
        ELSE LET result == Route(self, method.value, params.value)
             IN  IF result.kind = "return"
                 THEN Return(ResultEnvelope(request_id.value, result.value))
                 ELSE IF Caught(result)
                 THEN Return(ErrorEnvelope(request_id.value, result))
                 ELSE result

(***************************************************************************)
(* The requests the dispatcher is driven with                              *)
(***************************************************************************)
Absent == [has |-> FALSE]
Present(x) == [has |-> TRUE, x |-> x]

\* The dict with the keys of `opts` that are present.
MkDict(opts) ==
    PyDict([k \in {k \in DOMAIN opts : opts[k].has} |-> opts[k].x])

Methods ==
    {Absent, Present(PyStr("initialize")), Present(PyStr("tools/list")),
     Present(PyStr("tools/call")), Present(PyStr("ping"))}

ToolNames ==
    {Absent, Present(PyStr("say_hi")), Present(PyStr("Say_Hi")),
     Present(PyStr("get_time")), Present(PyStr("nope"))}

Arguments ==
    {Absent, Present(EmptyDict), Present(PyDict([x |-> PyInt(1)]))}

ParamsDicts ==
    {MkDict([name |-> n, arguments |-> a]) : n \in ToolNames, a \in Arguments}

Params == {Absent, Present(PyNone)} \cup {Present(p) : p \in ParamsDicts}

Ids == {Absent, Present(PyStr("1")), Present(PyStr("req-2")), Present(PyInt(7))}

\* Every request mapping, and two JSON documents that are not mappings.
RequestDicts ==
    {MkDict([method |-> m, params |-> p, id |-> i]) :
        m \in Methods, p \in Params, i \in Ids}

Requests == RequestDicts \cup {PyNone, PyList(<<>>)}

(***************************************************************************)
(* FeishuBot: the token cache (get_access_token) and send_message.         *)
(* The two files define the same get_access_token; the line numbers below  *)
(* are those of feishu_bot_config.py.                                      *)
(***************************************************************************)
Margin == 60            \* the seconds subtracted from the lifetime
DefaultExpire == 7200   \* j.get("expire", 7200)

Granule == 30           \* the model's clock moves on a grid of this step
MaxTicks == 2           \* grid points after 0 and after the default expiry
\* The coroutines there are; a run lets some of them call (callers).
Callers == {1, 2}

\* The instants the clock takes: around the start and around the expiry of
\* a token of the default lifetime fetched at the start.
Instants ==
    {k * Granule : k \in 0..MaxTicks}
        \cup {DefaultExpire - Margin + k * Granule : k \in 0..MaxTicks}

PyTime(n) == [t |-> "datetime", v |-> n]

\* bool(x) of the values the bot tests.
Truthy(x) ==
    CASE x.t = "None" -> FALSE
      [] x.t = "str" -> x.v # ""
      [] x.t = "int" -> x.v # 0
      [] x.t = "dict" -> DOMAIN x.v # {}
      [] x.t = "list" -> x.v # <<>>
      [] OTHER -> TRUE

CacheValid_le(token, expire, now) ==
    Truthy(token) /\ Truthy(expire) /\ now <= expire.v

\* Line 37: the cached token is served.
CacheValid(token, expire, now) ==
    Truthy(token) /\ Truthy(expire) /\ now < expire.v

\* What the credential-exchange request can come back with.
TokenValues == {Absent, Present(PyStr("")), Present(PyStr("tokA")),
                Present(PyStr("tokB"))}
ExpireValues == {Absent, Present(PyInt(Margin)), Present(PyInt(Margin + 2 * Granule)),
                 Present(PyStr("abc"))}
TokenBodies ==
    {MkDict([code |-> Present(PyInt(0)), app_access_token |-> tk, expire |-> e]) :
        tk \in TokenValues, e \in ExpireValues}
    \cup {MkDict([code |-> Present(PyInt(99)), app_access_token |-> Absent,
                  expire |-> Absent]),
          MkDict([code |-> Absent, app_access_token |-> Present(PyStr("tokA")),
                  expire |-> Absent]),
          PyList(<<>>)}
NetworkFailures ==
    {[kind |-> "exception"], [kind |-> "status"], [kind |-> "notjson"]}
TokenResponses ==
    NetworkFailures \cup {[kind |-> "json", j |-> j] : j \in TokenBodies}

\* Lines 43-45: the awaited post, raise_for_status and resp.json().
ReadJson(resp) ==
    CASE resp.kind = "exception" -> Raise("ConnectError", <<"connect failed">>)
      [] resp.kind = "status" -> Raise("HTTPStatusError", <<"bad status">>)
      [] resp.kind = "notjson" ->
            Raise("JSONDecodeError", <<"Expecting value: line 1 column 1 (char 0)">>)
      [] OTHER -> Return(resp.j)

NewExpiry_late(now, late, expire_seconds) ==
    PyTime(late + expire_seconds - Margin)

\* Line 49: now + timedelta(seconds=expire_seconds - 60), now being the
\* instant read at entry (line 36); `late` is the instant the response came.
NewExpiry(now, late, expire_seconds) ==
    PyTime(now + expire_seconds - Margin)

\* Lines 43-54, the body of the try block once the response is there:
\* what it returns or raises, and the cache it leaves.
RefreshBody(token, expire, now, late, resp) ==
    LET j == ReadJson(resp)
        keep(out) == [out |-> out, token |-> token, expire |-> expire,
                      stored |-> FALSE]
    IN  IF j.kind = "raise" THEN keep(j)
        ELSE LET code == dict_get(j.value, "code", PyNone)
             IN  IF code.kind = "raise" THEN keep(code)
                 ELSE IF code.value # PyInt(0) THEN keep(Return(PyStr("")))
                 ELSE IF "app_access_token" \notin DOMAIN j.value.v
                 THEN keep(Raise("KeyError", <<"'app_access_token'">>))
                 ELSE LET new_token == j.value.v["app_access_token"]
                          expire_seconds ==
                              dict_get(j.value, "expire", PyInt(DefaultExpire)).value
                      IN  IF expire_seconds.t # "int"
                          THEN \* line 47 has assigned the token already
                               [out |-> Raise("TypeError",
                                   <<"unsupported operand type(s) for -: '",
                                     TypeName(expire_seconds), "' and 'int'">>),
                                token |-> new_token, expire |-> expire,
                                stored |-> FALSE]
                          ELSE [out |-> Return(new_token),
                                token |-> new_token,
                                expire |-> NewExpiry(now, late, expire_seconds.v),
                                stored |-> TRUE]

get_access_token_resume_shared(token, expire, now, late, resp) ==
    LET b == RefreshBody(token, expire, now, late, resp)
    IN  IF CacheValid(token, expire, late)
        THEN [out |-> Return(token), token |-> token, expire |-> expire,
              stored |-> FALSE]
        ELSE IF b.out.kind = "raise" /\ Caught(b.out)
        THEN [b EXCEPT !.out = Return(PyStr(""))]
        ELSE b

\* Lines 42-57: the try block with its "except Exception" (lines 55-57).
get_access_token_resume(token, expire, now, late, resp) ==
    LET b == RefreshBody(token, expire, now, late, resp)
    IN  IF b.out.kind = "raise" /\ Caught(b.out)
        THEN [b EXCEPT !.out = Return(PyStr(""))]
        ELSE b

\* What the send-message request can come back with.
SendResponses ==
    NetworkFailures
        \cup {[kind |-> "json", j |-> j] :
                j \in {PyDict([code |-> PyInt(0)]), PyDict([code |-> PyInt(230001)]),
                       PyList(<<>>)}}

\* {"error": "无法获取access_token"}
NoTokenError == PyDict([error |-> <<"\\u65e0\\u6cd5\\u83b7\\u53d6access_token">>])

send_message_gate_open(token) ==
    [post |-> TRUE, ret |-> Idle]

\* Lines 60-62: send_message once get_access_token has returned `token`.
send_message_gate(token) ==
    IF ~Truthy(token)
    THEN [post |-> FALSE, ret |-> Return(NoTokenError)]
    ELSE [post |-> TRUE, ret |-> Idle]

\* Lines 79-90: the try block around the send request, once it has answered.
send_message_resume(resp) ==
    LET j == ReadJson(resp)
        code == IF j.kind = "raise" THEN j ELSE dict_get(j.value, "code", PyNone)
    IN  IF code.kind = "raise"
        THEN IF Caught(code) THEN Return(PyDict([error |-> code.msg])) ELSE code
        ELSE Return(j.value)

NoRefresh == [has |-> FALSE]

IdleCall ==
    [op |-> "none", pc |-> "idle", now |-> 0, nreq |-> 0, nsend |-> 0,
     ret |-> Idle, before |-> <<PyNone, PyNone>>, seen |-> NoRefresh,
     resp |-> Idle, tok |-> Idle, auth |-> PyNone, sresp |-> Idle]

InitBot ==
    /\ access_token = PyNone
    /\ token_expire_time = PyNone
    /\ clock = 0
    /\ callers = {1}
    /\ calls = [c \in Callers |-> IdleCall]
    /\ last_refresh = NoRefresh

\* Time passes.
Tick ==
    /\ \E t \in Instants : t > clock /\ clock' = t
    /\ UNCHANGED <<access_token, token_expire_time, callers, calls, last_refresh, serverVars, routerVars, clientVars, runVars>>

\* A caller enters get_access_token, directly or as line 60 of send_message,
\* and runs to its first await (line 43, or line 80 on a cache hit).
Call(c, op) ==
    /\ c \in callers
    /\ calls[c].pc = "idle"
    /\ LET now == clock
           hit == CacheValid(access_token, token_expire_time, now)
           gate == send_message_gate(access_token)
           entered == [IdleCall EXCEPT !.op = op, !.now = now,
                           !.before = <<access_token, token_expire_time>>,
                           !.seen = last_refresh]
       IN  calls' = [calls EXCEPT ![c] =
              IF ~hit
              THEN [entered EXCEPT !.pc = "await_token", !.nreq = 1]
              ELSE IF op = "get_access_token"
              THEN [entered EXCEPT !.pc = "done", !.ret = Return(access_token),
                        !.tok = Return(access_token)]
              ELSE IF gate.post
              THEN [entered EXCEPT !.pc = "await_send", !.nsend = 1,
                        !.tok = Return(access_token), !.auth = access_token]
              ELSE [entered EXCEPT !.pc = "done", !.ret = gate.ret,
                        !.tok = Return(access_token)]]
    /\ UNCHANGED <<access_token, token_expire_time, clock, callers, last_refresh, serverVars, routerVars, clientVars, runVars>>

\* The credential-exchange request of caller c completes: lines 43-57, and
\* for send_message lines 61-80.
TokenResponse(c, resp) ==
    /\ calls[c].pc = "await_token"
    /\ LET r == get_access_token_resume(access_token, token_expire_time,
                                        calls[c].now, clock, resp)
           got == [calls[c] EXCEPT !.resp = resp, !.tok = r.out]
           gate == send_message_gate(r.out.value)
       IN  /\ access_token' = r.token
           /\ token_expire_time' = r.expire
           /\ last_refresh' =
                 IF r.stored
                 THEN [has |-> TRUE, value |-> r.token, expire |-> r.expire,
                       now |-> calls[c].now, body |-> resp.j]
                 ELSE last_refresh
           /\ calls' = [calls EXCEPT ![c] =
                 IF calls[c].op = "get_access_token" \/ r.out.kind = "raise"
                 THEN [got EXCEPT !.pc = "done", !.ret = r.out]
                 ELSE IF gate.post
                 THEN [got EXCEPT !.pc = "await_send", !.nsend = 1,
                           !.auth = r.out.value]
                 ELSE [got EXCEPT !.pc = "done", !.ret = gate.ret]]
    /\ UNCHANGED <<clock, callers, serverVars, routerVars, clientVars, runVars>>

\* The send-message request of caller c completes: lines 80-90.
SendResponse(c, resp) ==
    /\ calls[c].pc = "await_send"
    /\ calls' = [calls EXCEPT ![c] =
          [@ EXCEPT !.pc = "done", !.sresp = resp, !.ret = send_message_resume(resp)]]
    /\ UNCHANGED <<access_token, token_expire_time, clock, callers, last_refresh, serverVars, routerVars, clientVars, runVars>>

\* The caller has its answer; the coroutine is gone.
Finish(c) ==
    /\ calls[c].pc = "done"
    /\ calls' = [calls EXCEPT ![c] = IdleCall]
    /\ UNCHANGED <<access_token, token_expire_time, clock, callers, last_refresh, serverVars, routerVars, clientVars, runVars>>

BotNext ==
    \/ Tick
    \/ \E c \in Callers : \E op \in {"get_access_token", "send_message"} : Call(c, op)
    \/ \E c \in Callers : \E resp \in TokenResponses : TokenResponse(c, resp)
    \/ \E c \in Callers : \E resp \in SendResponses : SendResponse(c, resp)
    \/ \E c \in Callers : Finish(c)


\* Several coroutines are in get_access_token at once: each is suspended at
\* its await of line 43 only, and the responses arrive in any order.
InitBotConcurrent ==
    /\ access_token = PyNone
    /\ token_expire_time = PyNone
    /\ clock = 0
    /\ callers = Callers
    /\ calls = [c \in Callers |-> IdleCall]
    /\ last_refresh = NoRefresh

\* The responses the concurrent requests get: a failed call, a refusal, two
\* different tokens with a lifetime, and a token with a malformed lifetime.
ConcurrentTokenResponses ==
    {[kind |-> "exception"],
     [kind |-> "json", j |-> PyDict([code |-> PyInt(99)])],
     [kind |-> "json", j |-> PyDict([code |-> PyInt(0),
                                     app_access_token |-> PyStr("tokA")])],
     [kind |-> "json", j |-> PyDict([code |-> PyInt(0),
                                     app_access_token |-> PyStr("tokB"),
                                     expire |-> PyInt(Margin + 2 * Granule)])],
     [kind |-> "json", j |-> PyDict([code |-> PyInt(0),
                                     app_access_token |-> PyStr("tokB"),
                                     expire |-> PyStr("abc")])]}

ConcurrentNext ==
    \/ Tick
    \/ \E c \in Callers : Call(c, "get_access_token")
    \/ \E c \in Callers : \E resp \in ConcurrentTokenResponses : TokenResponse(c, resp)
    \/ \E c \in Callers : Finish(c)

(***************************************************************************)
(* Strings: str.strip, str.lower, str.join and json.loads                  *)
(***************************************************************************)
\* The characters str.strip() removes and JSON allows between tokens.
Whitespace == {" ", "\t", "\n", "\r"}
UpperCase == "ABCDEFGHIJKLMNOPQRSTUVWXYZ"
LowerCase == "abcdefghijklmnopqrstuvwxyz"
Digits == "0123456789"

StartsWith(s, p) == Len(s) >= Len(p) /\ SubSeq(s, 1, Len(p)) = p
Drop(s, n) == SubSeq(s, n + 1, Len(s))

RECURSIVE lstrip(_)
lstrip(s) ==
    IF Len(s) > 0 /\ Head(s) \in Whitespace THEN lstrip(Tail(s)) ELSE s

RECURSIVE rstrip(_)
rstrip(s) ==
    IF Len(s) > 0 /\ SubSeq(s, Len(s), Len(s)) \in Whitespace
    THEN rstrip(SubSeq(s, 1, Len(s) - 1))
    ELSE s

\* str.strip()
strip(s) == rstrip(lstrip(s))

\* The index of character ch in the string `within`, 0 when it is not there.
IndexIn(ch, within) ==
    IF \E i \in 1..Len(within) : SubSeq(within, i, i) = ch
    THEN CHOOSE i \in 1..Len(within) :
            /\ SubSeq(within, i, i) = ch
            /\ \A k \in 1..(i - 1) : SubSeq(within, k, k) # ch
    ELSE 0

RECURSIVE lower(_)
\* str.lower(), on ASCII letters.
lower(s) ==
    IF Len(s) = 0 THEN ""
    ELSE LET i == IndexIn(Head(s), UpperCase)
         IN  (IF i = 0 THEN Head(s) ELSE SubSeq(LowerCase, i, i)) \o lower(Tail(s))

RECURSIVE Concat(_)
\* The string made of the fragments of a sequence: "".join(fragments).
Concat(fragments) ==
    IF fragments = <<>> THEN "" ELSE Head(fragments) \o Concat(Tail(fragments))

RECURSIVE Join(_, _)
\* sep.join(texts)
Join(sep, texts) ==
    IF texts = <<>> THEN ""
    ELSE IF Len(texts) = 1 THEN texts[1]
    ELSE texts[1] \o sep \o Join(sep, Tail(texts))

RECURSIVE AllDigits(_)
AllDigits(s) ==
    Len(s) = 0 \/ (IndexIn(Head(s), Digits) # 0 /\ AllDigits(Tail(s)))

RECURSIVE IntOf(_)
IntOf(s) ==
    IF Len(s) = 0 THEN 0
    ELSE 10 * IntOf(SubSeq(s, 1, Len(s) - 1))
            + (IndexIn(SubSeq(s, Len(s), Len(s)), Digits) - 1)

RECURSIVE ValidJsonChars(_)
\* The inside of a JSON string: no quote, no control character, and a
\* backslash only as the start of a \uXXXX escape (which the model keeps as
\* it is: the escape is the model's name of the character).
ValidJsonChars(s) ==
    IF Len(s) = 0 THEN TRUE
    ELSE IF Head(s) \in {"\"", "\t", "\n", "\r"} THEN FALSE
    ELSE IF Head(s) = "\\"
    THEN Len(s) >= 6 /\ SubSeq(s, 2, 2) = "u" /\ ValidJsonChars(Drop(s, 6))
    ELSE ValidJsonChars(Tail(s))

JsonError ==
    Raise("JSONDecodeError", <<"Expecting value: line 1 column 1 (char 0)">>)

\* A JSON string literal at the start of s: its text and what follows it.
JsonString(s) ==
    IF ~StartsWith(s, "\"") THEN [ok |-> FALSE]
    ELSE LET body == Drop(s, 1)
             q == IndexIn("\"", body)
         IN  IF q = 0 \/ ~ValidJsonChars(SubSeq(body, 1, q - 1))
             THEN [ok |-> FALSE]
             ELSE [ok |-> TRUE, text |-> SubSeq(body, 1, q - 1),
                   rest |-> Drop(body, q)]

\* json.loads(s) for the documents the model meets: null, true, false, a
\* non-negative integer, a string, {} and an object with one string member;
\* any other text the model feeds it is not JSON.
json_loads(s) ==
    LET b == strip(s)
        str == JsonString(b)
        key == JsonString(lstrip(Drop(b, 1)))
        colon == IF key.ok THEN lstrip(key.rest) ELSE ""
        val == JsonString(lstrip(Drop(colon, 1)))
    IN  CASE b = "null" -> Return(PyNone)
          [] b = "true" -> Return([t |-> "bool", v |-> TRUE])
          [] b = "false" -> Return([t |-> "bool", v |-> FALSE])
          [] Len(b) > 0 /\ AllDigits(b) /\ (Len(b) = 1 \/ Head(b) # "0") ->
                Return(PyInt(IntOf(b)))
          [] str.ok -> IF str.rest = "" THEN Return(PyStr(str.text)) ELSE JsonError
          [] StartsWith(b, "{") ->
                IF lstrip(Drop(b, 1)) = "}" THEN Return(EmptyDict)
                ELSE IF key.ok /\ StartsWith(colon, ":") /\ val.ok
                        /\ lstrip(val.rest) = "}"
                THEN Return(PyDict((key.text :> PyStr(val.text))))
                ELSE JsonError
          [] OTHER -> JsonError

(***************************************************************************)
(* FeishuBot: call_mcp_tool, get_mcp_json_from_gemini and handle_message.  *)
(* Line numbers are those of feishu_bot_config.py; http_mcp_server.py      *)
(* differs in call_mcp_tool only.                                          *)
(***************************************************************************)
Impls == {"feishu_bot_config", "http_mcp_server"}

\* str(e) of the exceptions the model raises (a KeyError shows its key).
StrOf(e) == Concat(e.msg)

\* What the POST to {mcp_server_url}/mcp can come back with: a failure, a
\* body chosen by the peer, or the answer of a SimpleMCPServer to the payload.
ContentLists ==
    {<<>>,
     <<[type |-> "text", text |-> "hi"]>>,
     <<[type |-> "text", text |-> "a"], [type |-> "text", text |-> "b"]>>,
     <<[type |-> "image"], [type |-> "text", text |-> "b"]>>,
     <<[type |-> "text"]>>}
McpBodies ==
    {[result |-> [content |-> items]] : items \in ContentLists}
        \cup {[result |-> <<>>],
              [error |-> [code |-> -32603, message |-> <<"boom">>]]}
McpResponses ==
    NetworkFailures \cup {[kind |-> "server"]}
        \cup {[kind |-> "json", j |-> j] : j \in McpBodies}

\* item.get(key, default) on a content item.
ItemGet(item, key, default) ==
    IF key \in DOMAIN item THEN item[key] ELSE default

\* Line 110: the texts of the items whose type is "text".
TextsOf(content_list) ==
    LET texts[i \in 0..Len(content_list)] ==
            IF i = 0 THEN <<>>
            ELSE IF ItemGet(content_list[i], "type", "") = "text"
                 THEN Append(texts[i - 1], ItemGet(content_list[i], "text", ""))
                 ELSE texts[i - 1]
    IN  texts[Len(content_list)]

CallFailedPrefix ==     \* "调用 MCP Server 工具失败: "
    "\\u8c03\\u7528 MCP Server \\u5de5\\u5177\\u5931\\u8d25: "
NoResultReply(impl) ==
    IF impl = "feishu_bot_config"
    THEN "\\u8c03\\u7528\\u5931\\u8d25"                 \* "调用失败"
    ELSE "\\u65e0\\u7ed3\\u679c\\u8fd4\\u56de"         \* "无结果返回"
\* "\n".join in feishu_bot_config.py line 111, "".join in
\* http_mcp_server.py line 118.
JoinSeparator(impl) == IF impl = "feishu_bot_config" THEN "\n" ELSE ""

\* call_mcp_tool (lines 92-117; http_mcp_server.py lines 100-123): the str
\* it returns, the server answering with `resp`.
call_mcp_tool(impl, srv, tool_name, arguments, resp) ==
    LET payload == PyDict([jsonrpc |-> PyStr("2.0"),
                           id |-> PyStr(IF impl = "feishu_bot_config"
                                        THEN "1" ELSE "feishu_call_001"),
                           method |-> PyStr("tools/call"),
                           params |-> PyDict([name |-> tool_name,
                                              arguments |-> IF Truthy(arguments)
                                                            THEN arguments
                                                            ELSE EmptyDict])])
        j == IF resp.kind = "server"
             THEN handle_request(srv, payload)
             ELSE ReadJson(resp)
    IN  IF j.kind = "raise"
        THEN CallFailedPrefix \o StrOf(j)
        ELSE IF "result" \in DOMAIN j.value /\ "content" \in DOMAIN j.value["result"]
        THEN Join(JoinSeparator(impl), TextsOf(j.value["result"].content))
        ELSE NoResultReply(impl)

\* What the completion call can do: fail, or answer with a text on which
\* json.loads raises or yields the given value.
ToolsCallOf(name) ==
    PyDict([method |-> PyStr("tools/call"),
            params |-> PyDict([name |-> PyStr(name)])])
Completions ==
    {[kind |-> "exception"], [kind |-> "notjson"]}
        \cup {[kind |-> "json", j |-> j] :
                j \in {ToolsCallOf("say_hi"), ToolsCallOf("get_time"),
                       PyDict([method |-> PyStr("tools/call"),
                               params |-> PyDict([name |-> PyStr("say_hi"),
                                                  arguments |-> PyDict([x |-> PyInt(1)])])]),
                       PyDict([method |-> PyStr("tools/call")]),
                       PyDict([method |-> PyStr("tools/call"), params |-> EmptyDict]),
                       PyDict([method |-> PyStr("tools/list")]),
                       EmptyDict,
                       PyList(<<PyInt(1)>>)}}

\* get_mcp_json_from_gemini (lines 119-141): the parsed reply, or None on
\* any exception.
get_mcp_json_from_gemini(user_text, comp) ==
    LET body == CASE comp.kind = "exception" ->
                        Raise("OpenAIError", <<"completion failed">>)
                  [] comp.kind = "notjson" -> JsonError
                  [] OTHER -> Return(comp.j)
    IN  IF body.kind = "raise" /\ Caught(body) THEN Return(PyNone) ELSE body

HelpText ==     \* "可用命令：\n/hi - 打招呼\n/time - 获取当前时间\n/help - 显示帮助信息"
    "\\u53ef\\u7528\\u547d\\u4ee4\\uff1a\n"
        \o "/hi - \\u6253\\u62db\\u547c\n"
        \o "/time - \\u83b7\\u53d6\\u5f53\\u524d\\u65f6\\u95f4\n"
        \o "/help - \\u663e\\u793a\\u5e2e\\u52a9\\u4fe1\\u606f"
TimeKeyword == "\\u65f6\\u95f4"         \* "时间"
HelpKeyword == "\\u5e2e\\u52a9"         \* "帮助"
\* f"收到消息: {text}\n使用 /help 查看可用命令"
FallbackReply(text) ==
    "\\u6536\\u5230\\u6d88\\u606f: " \o text
        \o "\n\\u4f7f\\u7528 /help \\u67e5\\u770b\\u53ef\\u7528\\u547d\\u4ee4"
\* f"处理消息时出错: {str(e)}"
ErrorReply(e) == "\\u5904\\u7406\\u6d88\\u606f\\u65f6\\u51fa\\u9519: " \o StrOf(e)

NoAttribute(x, attr) ==
    Raise("AttributeError",
          <<"'", TypeName(x), "' object has no attribute '", attr, "'">>)

\* Lines 145-152: the trimmed text of the event, or the exception raised on
\* the way.
NormalizedText(ev) ==
    LET message == dict_get(ev, "message", EmptyDict)
    IN  IF message.kind = "raise" THEN message
        ELSE LET content == dict_get(message.value, "content", PyStr(""))
             IN  IF content.kind = "raise" THEN content
                 ELSE LET parsed == IF content.value.t = "str"
                                    THEN json_loads(content.value.v)
                                    ELSE Return(content.value)
                          mapping == IF parsed.kind = "raise"
                                     THEN PyDict([text |-> content.value])
                                     ELSE parsed.value
                          text == dict_get(mapping, "text", PyStr(""))
                      IN  IF text.kind = "raise" THEN text
                          ELSE IF text.value.t # "str"
                          THEN NoAttribute(text.value, "strip")
                          ELSE Return(strip(text.value.v))

IsHi_exact(text) == text = "/hi" \/ text = "hi"

\* Line 154
IsHi(text) == text = "/hi" \/ lower(text) = "hi"
\* Line 156
IsTime(text) == text = "/time" \/ text = TimeKeyword
\* Line 158
IsHelp(text) == text = "/help" \/ text = HelpKeyword

Guarded_open(out) == out

\* Lines 174-176, "except Exception as e" around the whole of
\* handle_message: an exception becomes the processing-error reply.
Guarded(out) ==
    IF out.kind = "raise" /\ Caught(out) THEN Return(ErrorReply(out)) ELSE out

\* Where handle_message goes next: it returns `out`, or awaits call_mcp_tool
\* with `tool` = <<tool_name, arguments>>, or awaits the resolver on `text`.
Returns(out) == [next |-> "done", out |-> Guarded(out)]
Calls(tool_name, arguments) ==
    [next |-> "await_tool", tool |-> <<tool_name, arguments>>]
Resolves(text) == [next |-> "await_completion", text |-> text]

\* Lines 144-166: handle_message from its entry to its first await.
handle_message_entry(ev) ==
    LET text == NormalizedText(ev)
    IN  IF text.kind = "raise" THEN Returns(text)
        ELSE IF IsHi(text.value) THEN Calls(PyStr("say_hi"), PyNone)
        ELSE IF IsTime(text.value) THEN Calls(PyStr("get_time"), PyNone)
        ELSE IF IsHelp(text.value) THEN Returns(Return(HelpText))
        ELSE Resolves(text.value)

\* Lines 166-172: handle_message once the resolver has answered mcp_json.
handle_message_resolved(text, mcp_json) ==
    IF mcp_json.kind = "raise" THEN Returns(mcp_json)
    ELSE IF ~Truthy(mcp_json.value) THEN Returns(Return(FallbackReply(text)))
    ELSE LET method == dict_get(mcp_json.value, "method", PyNone)
         IN  IF method.kind = "raise" THEN Returns(method)
             ELSE IF method.value # PyStr("tools/call")
             THEN Returns(Return(FallbackReply(text)))
             ELSE IF "params" \notin DOMAIN mcp_json.value.v
             THEN Returns(Raise("KeyError", <<"'params'">>))
             ELSE LET params == mcp_json.value.v["params"]
                  IN  IF params.t # "dict"
                      THEN Returns(Raise("TypeError",
                              <<"'", TypeName(params), "' object is not subscriptable">>))
                      ELSE IF "name" \notin DOMAIN params.v
                      THEN Returns(Raise("KeyError", <<"'name'">>))
                      ELSE Calls(params.v["name"],
                                 dict_get(params, "arguments", EmptyDict).value)

\* The events the router is driven with.
CommandTexts ==
    {"/hi", "hi", "Hi", "HI", "hI", "/HI", "/Hi", "/time", "/Time", "/TIME",
     TimeKeyword, "/help", "/Help", HelpKeyword, "hello", "high", ""}
LeftPads == {"", " "}
RightPads == {"", "\n"}
Texts == {l \o t \o r : l \in LeftPads, t \in CommandTexts, r \in RightPads}
Contents ==
    {PyStr(t) : t \in Texts}
        \cup {PyStr("{\"text\": \"" \o t \o "\"}") : t \in Texts}
        \cup {PyDict([text |-> PyStr(t)]) : t \in Texts}
        \cup {PyStr("123"), PyStr("null"), PyStr("{}"), EmptyDict, PyInt(5),
              PyDict([text |-> PyInt(5)])}
Events ==
    {PyDict([message |-> PyDict([content |-> c])]) : c \in Contents}
        \cup {EmptyDict, PyDict([message |-> EmptyDict]),
              PyDict([message |-> PyNone]), PyNone}

InitRouter ==
    /\ bot_impl = "feishu_bot_config"
    /\ event = PyNone
    /\ router_pc = "idle"
    /\ pending = Idle
    /\ completion = Idle
    /\ mcp_response = Idle
    /\ reply = Idle
    /\ tool_calls = <<>>
    /\ resolver_calls = <<>>

\* handle_message moves on as `step` says.
Goto(step) ==
    /\ router_pc' = step.next
    /\ pending' = step
    /\ reply' = IF step.next = "done" THEN step.out ELSE reply
    /\ tool_calls' =
          IF step.next = "await_tool" THEN Append(tool_calls, step.tool)
          ELSE tool_calls
    /\ resolver_calls' =
          IF step.next = "await_completion" THEN Append(resolver_calls, step.text)
          ELSE resolver_calls

\* A webhook event enters handle_message of one of the two bots, which runs
\* to its first await or to its return.
Receive ==
    /\ router_pc = "idle"
    /\ \E impl \in Impls, ev \in Events :
          /\ bot_impl' = impl
          /\ event' = ev
          /\ Goto(handle_message_entry(ev))
    /\ UNCHANGED <<completion, mcp_response, serverVars, botVars, clientVars, runVars>>

\* The completion call ends: get_mcp_json_from_gemini returns and
\* handle_message runs on (lines 166-170).
CompletionDone ==
    /\ router_pc = "await_completion"
    /\ \E comp \in Completions :
          /\ completion' = comp
          /\ Goto(handle_message_resolved(pending.text,
                      get_mcp_json_from_gemini(pending.text, comp)))
    /\ UNCHANGED <<bot_impl, event, mcp_response, serverVars, botVars, clientVars, runVars>>

\* The POST of call_mcp_tool ends; handle_message returns its str.
ToolDone ==
    /\ router_pc = "await_tool"
    /\ \E resp \in McpResponses :
          /\ mcp_response' = resp
          /\ Goto(Returns(Return(call_mcp_tool(bot_impl, server, pending.tool[1],
                                               pending.tool[2], resp))))
    /\ UNCHANGED <<bot_impl, event, completion, serverVars, botVars, clientVars, runVars>>

\* The webhook has the reply; the router waits for the next event.
Deliver ==
    /\ router_pc = "done"
    /\ bot_impl' = "feishu_bot_config"
    /\ event' = PyNone
    /\ router_pc' = "idle"
    /\ pending' = Idle
    /\ completion' = Idle
    /\ mcp_response' = Idle
    /\ reply' = Idle
    /\ tool_calls' = <<>>
    /\ resolver_calls' = <<>>
    /\ UNCHANGED <<serverVars, botVars, clientVars, runVars>>

RouterNext == Receive \/ CompletionDone \/ ToolDone \/ Deliver

(***************************************************************************)
(* mcp_client.py: the command-line client                                  *)
(***************************************************************************)
\* What the user types at the prompt (line 43).
ClientInputs == {"hello", "hi", "now", "time", ""}

\* The text Gemini puts in its first candidate.
GeminiTexts ==
    {"{\"method\": \"tools/call\"}", " {} \n", "sorry", ""}
\* What requests.post and response.json() of line 26-27 can give: the post
\* fails, the body is not JSON, or the body is one of these documents.
GeminiBodies ==
    {[candidates |-> <<[content |-> [parts |-> <<[text |-> t]>>]]>>] :
        t \in GeminiTexts}
        \cup {[error |-> [code |-> 400]],
              [candidates |-> <<>>],
              [candidates |-> <<[finishReason |-> "SAFETY"]>>],
              [candidates |-> <<[content |-> [parts |-> <<>>]]>>]}
GeminiResponses ==
    {[kind |-> "exception"], [kind |-> "notjson"]}
        \cup {[kind |-> "json", j |-> j] : j \in GeminiBodies}

\* Line 30: result["candidates"][0]["content"]["parts"][0]["text"]
FirstCandidateText(result) ==
    IF "candidates" \notin DOMAIN result
    THEN Raise("KeyError", <<"'candidates'">>)
    ELSE IF Len(result.candidates) = 0
    THEN Raise("IndexError", <<"list index out of range">>)
    ELSE IF "content" \notin DOMAIN result.candidates[1]
    THEN Raise("KeyError", <<"'content'">>)
    ELSE IF Len(result.candidates[1].content.parts) = 0
    THEN Raise("IndexError", <<"list index out of range">>)
    ELSE Return(result.candidates[1].content.parts[1].text)

\* get_mcp_json_from_gemini of mcp_client.py (lines 7-34): the post and
\* response.json() are outside the try, and the except clause re-raises.
mcp_client_get_mcp_json_from_gemini(user_input, resp) ==
    LET result == CASE resp.kind = "exception" ->
                          Raise("ConnectionError", <<"connect failed">>)
                    [] resp.kind = "notjson" -> JsonError
                    [] OTHER -> Return(resp.j)
    IN  IF result.kind = "raise" THEN result
        ELSE LET mcp_json == FirstCandidateText(result.value)
             IN  IF mcp_json.kind = "raise" THEN mcp_json
                 ELSE Return(PyStr(strip(mcp_json.value)))

\* What the POST of call_mcp_server (lines 36-40) comes back with.
ClientServerResponses ==
    {[kind |-> "exception"], [kind |-> "notjson"],
     [kind |-> "json", j |-> [error |-> [code |-> -32603]]],
     [kind |-> "json", j |-> [result |-> [content |-> <<>>]]]}

\* call_mcp_server (lines 36-40): response.json(), no try around it.
call_mcp_server(mcp_json, resp) ==
    CASE resp.kind = "exception" -> Raise("ConnectionError", <<"connect failed">>)
      [] resp.kind = "notjson" -> JsonError
      [] OTHER -> Return(resp.j)

InitClient ==
    client = [pc |-> "prompt", user_input |-> "", gemini |-> Idle,
              mcp_json |-> Idle, result |-> Idle]

\* Lines 43-45: the user's line is read and get_mcp_json_from_gemini is
\* called; the script ends there when it raises.
ClientResolve ==
    /\ client.pc = "prompt"
    /\ \E user_input \in ClientInputs, resp \in GeminiResponses :
          LET mcp_json == mcp_client_get_mcp_json_from_gemini(user_input, resp)
          IN  client' = [client EXCEPT
                            !.pc = IF mcp_json.kind = "raise" THEN "crashed"
                                   ELSE "resolved",
                            !.user_input = user_input,
                            !.gemini = resp,
                            !.mcp_json = mcp_json]
    /\ UNCHANGED <<serverVars, botVars, routerVars, runVars>>

\* Lines 46-47: the text is posted to the MCP server and the answer printed.
ClientCall ==
    /\ client.pc = "resolved"
    /\ \E resp \in ClientServerResponses :
          LET result == call_mcp_server(client.mcp_json.value, resp)
          IN  client' = [client EXCEPT
                            !.pc = IF result.kind = "raise" THEN "crashed"
                                   ELSE "exited",
                            !.result = result]
    /\ UNCHANGED <<serverVars, botVars, routerVars, runVars>>

ClientNext == ClientResolve \/ ClientCall

(***************************************************************************)
(* SimpleMCPServer.run: the loop over the lines of stdin                   *)
(***************************************************************************)
MaxLines == 3

\* The lines a peer writes, each ended by its line break: requests, JSON
\* documents that are not objects, texts that are not JSON, a blank line.
RequestLines ==
    {"{\"method\": \"tools/list\"}\n",
     " {\"method\": \"initialize\"} \n",
     "{\"method\": \"ping\"}\n",
     "{}\n",
     "null\n",
     "123\n",
     "not json\n",
     "\n"}

StartBanner ==      \* "MCP服务器已启动，等待连接..."
    "MCP\\u670d\\u52a1\\u5668\\u5df2\\u542f\\u52a8\\uff0c\\u7b49\\u5f85\\u8fde\\u63a5..."
JsonErrorPrefix ==  \* "JSON解析错误: "
    "JSON\\u89e3\\u6790\\u9519\\u8bef: "
RequestErrorPrefix ==   \* "处理请求时出错: "
    "\\u5904\\u7406\\u8bf7\\u6c42\\u65f6\\u51fa\\u9519: "

\* Line 106, json.loads(line.strip()), of each of these lines: the request,
\* or the exception raised.
LoadedLines == [ln \in RequestLines |-> json_loads(strip(ln))]

\* Lines 106-115: one line through json.loads, handle_request and print;
\* what goes to stdout and to stderr.
run_line(self, ln) ==
    LET req == IF ln \in RequestLines THEN LoadedLines[ln]
               ELSE json_loads(strip(ln))
        response == IF req.kind = "raise" THEN req
                    ELSE handle_request(self, req.value)
    IN  IF response.kind = "return"
        THEN [out |-> <<response.value>>, err |-> <<>>]
        ELSE IF response.exc = "JSONDecodeError"
        THEN [out |-> <<>>, err |-> <<JsonErrorPrefix \o StrOf(response)>>]
        ELSE IF Caught(response)
        THEN [out |-> <<>>, err |-> <<RequestErrorPrefix \o StrOf(response)>>]
        ELSE [out |-> <<>>, err |-> <<>>]

InitRun ==
    /\ stdin = <<>>
    /\ stdin_closed = FALSE
    /\ run_pc = "start"
    /\ line = ""
    /\ consumed = <<>>
    /\ stdout = <<>>
    /\ stderr = <<>>

\* The peer writes one more line into the server's stdin.
PeerWrite ==
    /\ ~stdin_closed
    /\ Len(stdin) + Len(consumed) < MaxLines
    /\ \E ln \in RequestLines : stdin' = Append(stdin, ln)
    /\ UNCHANGED <<stdin_closed, run_pc, line, consumed, stdout, stderr>>
    /\ UNCHANGED <<serverVars, botVars, routerVars, clientVars>>

\* The peer closes the server's stdin.
PeerClose ==
    /\ ~stdin_closed
    /\ stdin_closed' = TRUE
    /\ UNCHANGED <<stdin, run_pc, line, consumed, stdout, stderr>>
    /\ UNCHANGED <<serverVars, botVars, routerVars, clientVars>>

\* Line 97: run starts and announces itself on stderr.
RunStart ==
    /\ run_pc = "start"
    /\ run_pc' = "reading"
    /\ stderr' = Append(stderr, StartBanner)
    /\ UNCHANGED <<stdin, stdin_closed, line, consumed, stdout>>
    /\ UNCHANGED <<serverVars, botVars, routerVars, clientVars>>

\* Lines 102-104: readline returns the next line, or "" at end of input,
\* on which the loop breaks; it blocks while stdin is open and empty.
ReadLine ==
    /\ run_pc = "reading"
    /\ \/ /\ stdin # <<>>
          /\ line' = Head(stdin)
          /\ stdin' = Tail(stdin)
          /\ consumed' = Append(consumed, Head(stdin))
          /\ run_pc' = "processing"
       \/ /\ stdin = <<>> /\ stdin_closed
          /\ line' = ""
          /\ run_pc' = "stopped"
          /\ UNCHANGED <<stdin, consumed>>
    /\ UNCHANGED <<stdin_closed, stdout, stderr>>
    /\ UNCHANGED <<serverVars, botVars, routerVars, clientVars>>

ProcessLine_fragile ==
    /\ run_pc = "processing"
    /\ LET done == run_line(server, line)
       IN  /\ stdout' = stdout \o done.out
           /\ stderr' = stderr \o done.err
           /\ run_pc' = IF done.out = <<>> THEN "stopped" ELSE "reading"
    /\ UNCHANGED <<stdin, stdin_closed, line, consumed>>
    /\ UNCHANGED <<serverVars, botVars, routerVars, clientVars>>

\* Lines 106-115: the line is parsed, handled and answered, and the loop
\* goes back to reading.
ProcessLine ==
    /\ run_pc = "processing"
    /\ LET done == run_line(server, line)
       IN  /\ stdout' = stdout \o done.out
           /\ stderr' = stderr \o done.err
    /\ run_pc' = "reading"
    /\ UNCHANGED <<stdin, stdin_closed, line, consumed>>
    /\ UNCHANGED <<serverVars, botVars, routerVars, clientVars>>

RunNext == PeerWrite \/ PeerClose \/ RunStart \/ ReadLine \/ ProcessLine

(***************************************************************************)
(* The dispatcher's state machine                                          *)
(***************************************************************************)
InitServer ==
    /\ server = [name |-> "simple-mcp-server", version |-> "1.0.0"]
    /\ request = PyNone
    /\ outcome = Idle

Init == InitServer /\ InitBot /\ InitRouter /\ InitClient /\ InitRun

HandleRequest_stateful ==
    \E req \in Requests :
        /\ request' = req
        /\ outcome' = handle_request(server, req)
        /\ server' = IF dict_get(req, "method", PyNone) = Return(PyStr("initialize"))
                     THEN [server EXCEPT !.version = "initialized"]
                     ELSE server
        /\ UNCHANGED <<botVars, routerVars, clientVars, runVars>>

HandleRequest ==
    \E req \in Requests :
        /\ request' = req
        /\ outcome' = handle_request(server, req)
        /\ UNCHANGED <<server, botVars, routerVars, clientVars, runVars>>

Next == HandleRequest

Spec == Init /\ [][Next]_vars

\* One caller at a time: sequential calls of get_access_token / send_message.
SpecBot == Init /\ [][BotNext]_vars

\* Webhook events routed one after the other.
SpecRouter == Init /\ [][RouterNext]_vars

\* Concurrent calls of get_access_token on one bot.
InitConcurrent == InitServer /\ InitBotConcurrent /\ InitRouter /\ InitClient /\ InitRun
SpecBotConcurrent == InitConcurrent /\ [][ConcurrentNext]_vars

\* One run of the mcp_client.py script.
SpecClient == Init /\ [][ClientNext]_vars

\* SimpleMCPServer.run fed by a peer through stdin.
SpecRun == Init /\ [][RunNext]_vars

\* The same, the event loop running the coroutine whenever it can go on:
\* run is never left suspended forever with a step to take. Nothing is
\* assumed of the peer.
SpecRunFair ==
    /\ Init /\ [][RunNext]_vars
    /\ WF_vars(RunStart) /\ WF_vars(ReadLine) /\ WF_vars(ProcessLine)

(***************************************************************************)
(* Claims about the dispatcher (checked under Spec)                        *)
(***************************************************************************)
Called == outcome.kind # "idle"
ReqIsDict == request.t = "dict"
ReqGet(key, default) ==
    IF key \in DOMAIN request.v THEN request.v[key] ELSE default
ReqMethod == ReqGet("method", PyNone)
ReqParams == ReqGet("params", EmptyDict)
ReqToolName ==
    IF "name" \in DOMAIN ReqParams.v THEN ReqParams.v["name"] ELSE PyNone
IsToolsCall ==
    Called /\ ReqIsDict /\ ReqMethod = PyStr("tools/call")
IsToolsCallOf(name) ==
    IsToolsCall /\ ReqParams.t = "dict" /\ ReqToolName = PyStr(name)
HasResultOnly ==
    /\ outcome.kind = "return"
    /\ "result" \in DOMAIN outcome.value
    /\ "error" \notin DOMAIN outcome.value
HasErrorOnly ==
    /\ outcome.kind = "return"
    /\ "error" \in DOMAIN outcome.value
    /\ "result" \notin DOMAIN outcome.value
\* The names tools/list advertises.
ListedTools ==
    LET tools == handle_tools_list(server, EmptyDict).value.tools
    IN  {PyStr(tools[i].name) : i \in DOMAIN tools}
KnownMethods ==
    {PyStr("initialize"), PyStr("tools/list"), PyStr("tools/call")}

\* C1: whatever the request mapping (any method, any params, success or
\* failure), the envelope handle_request returns carries the request's id,
\* None when the request has no id.
C1_IdPreserved ==
    (Called /\ ReqIsDict) =>
        /\ outcome.kind = "return"
        /\ outcome.value["id"] = ReqGet("id", PyNone)

C1_Witness ==
    /\ HasErrorOnly
    /\ "id" \in DOMAIN request.v
    /\ outcome.value["id"] = PyStr("req-2")

\* C2: a tools/call naming exactly "say_hi" returns a result and no error,
\* the result's content being the single text item "hi", whatever the
\* arguments (present or not).
C2_SayHi ==
    IsToolsCallOf("say_hi") =>
        /\ HasResultOnly
        /\ outcome.value["result"].content = <<[type |-> "text", text |-> "hi"]>>

C2_Witness ==
    /\ IsToolsCallOf("say_hi")
    /\ "arguments" \in DOMAIN ReqParams.v
    /\ ReqParams.v["arguments"] # EmptyDict
    /\ HasResultOnly

\* C3: get_time is a registered tool: a tools/call naming "get_time" returns
\* a result (a text item) and no error.
C3_GetTimeRegistered ==
    IsToolsCallOf("get_time") =>
        /\ HasResultOnly
        /\ Len(outcome.value["result"].content) = 1
        /\ outcome.value["result"].content[1].type = "text"

\* C4: an unknown or missing method, and a tools/call whose name is not a
\* registered tool (missing, or differing in letter case), return an error
\* and no result, with code -32603 and a message that tells unknown method
\* from unknown tool.
C4_UnknownRejected ==
    /\ (Called /\ ReqIsDict /\ ReqMethod \notin KnownMethods) =>
          /\ HasErrorOnly
          /\ outcome.value["error"].code = -32603
          /\ outcome.value["error"].message
                = <<UnknownMethodPrefix, Format(ReqMethod)>>
    /\ (IsToolsCall /\ ReqParams.t = "dict" /\ ReqToolName \notin ListedTools) =>
          /\ HasErrorOnly
          /\ outcome.value["error"].code = -32603
          /\ outcome.value["error"].message
                = <<UnknownToolPrefix, Format(ReqToolName)>>
    /\ UnknownMethodPrefix # UnknownToolPrefix

C4_Witness ==
    /\ IsToolsCallOf("Say_Hi")
    /\ HasErrorOnly
    /\ outcome.value["error"].message = <<UnknownToolPrefix, "Say_Hi">>

\* C5: for every request mapping handle_request returns (it never raises)
\* an envelope with exactly one of result and error, also when params is
\* absent or is not a mapping and when a method handler raises.
C5_ExactlyOne ==
    (Called /\ ReqIsDict) =>
        /\ outcome.kind = "return"
        /\ ("result" \in DOMAIN outcome.value) # ("error" \in DOMAIN outcome.value)

C5_Witness ==
    /\ IsToolsCall
    /\ ReqParams = PyNone
    /\ HasErrorOnly
    /\ outcome.value["error"].message[2] = "NoneType"

\* The request is a tools/call that names its tool with a str.
IsNamedToolsCall ==
    /\ IsToolsCall /\ ReqParams.t = "dict" /\ ReqToolName.t = "str"
\* The request is a tools/list and `outcome` is its answer.
IsToolsList ==
    Called /\ ReqIsDict /\ ReqMethod = PyStr("tools/list")
\* The names in the answer to tools/list.
AnsweredTools ==
    {PyStr(outcome.value["result"].tools[i].name) :
        i \in DOMAIN outcome.value["result"].tools}

\* C16: tools/list and tools/call agree on the registry: a tools/call
\* answered next to a tools/list (before or after it) has a result exactly
\* when its tool name is among the names listed, and otherwise an error;
\* and every listed tool carries name, description and inputSchema.
C16_RegistryAgrees ==
    /\ [](IsToolsList =>
            /\ HasResultOnly
            /\ \A i \in DOMAIN outcome.value["result"].tools :
                  {"name", "description", "inputSchema"}
                      \subseteq DOMAIN outcome.value["result"].tools[i])
    /\ [][(IsNamedToolsCall /\ IsToolsList') =>
              /\ HasResultOnly <=> ReqToolName \in AnsweredTools'
              /\ HasErrorOnly <=> ReqToolName \notin AnsweredTools']_vars
    /\ [][(IsToolsList /\ IsNamedToolsCall') =>
              /\ HasResultOnly' <=> ReqToolName' \in AnsweredTools
              /\ HasErrorOnly' <=> ReqToolName' \notin AnsweredTools]_vars

C16_Witness ==
    /\ IsToolsList
    /\ HasResultOnly
    /\ AnsweredTools = {PyStr("say_hi")}

(***************************************************************************)
(* Claims about the token cache and send_message (checked under SpecBot,   *)
(* where one caller calls again and again: sequential calls)               *)
(***************************************************************************)
\* Caller c has its answer from a call that ran get_access_token.
Answered(c) == calls[c].pc = "done"
\* The call of caller c found the token in the cache (no request).
ServedFromCache(c) == Answered(c) /\ calls[c].nreq = 0
\* The lifetime the issuer reported in a response body (line 48).
ReportedLifetime(body) ==
    IF "expire" \in DOMAIN body.v THEN body.v["expire"].v ELSE 7200
\* The failures of the credential exchange: network exception, non-success
\* status, a body that is not JSON or not a mapping, code != 0, a missing
\* app_access_token, a non-numeric expire.
TokenExchangeFailed(resp) ==
    \/ resp.kind \in {"exception", "status", "notjson"}
    \/ /\ resp.kind = "json"
       /\ \/ resp.j.t # "dict"
          \/ "code" \notin DOMAIN resp.j.v
          \/ resp.j.v["code"] # PyInt(0)
          \/ "app_access_token" \notin DOMAIN resp.j.v
          \/ ("expire" \in DOMAIN resp.j.v /\ resp.j.v["expire"].t # "int")

C7_ExpiryFromEntryInstant ==
    /\ last_refresh.has =>
          /\ last_refresh.expire
                = PyTime(last_refresh.now
                            + ReportedLifetime(last_refresh.body) - 60)
          /\ token_expire_time = last_refresh.expire
    /\ \A c \in Callers :
          ServedFromCache(c) =>
              /\ calls[c].seen.has
              /\ calls[c].now
                    < calls[c].seen.now + ReportedLifetime(calls[c].seen.body) - 60
              /\ ReportedLifetime(calls[c].seen.body) > 60

C7_Witness ==
    /\ last_refresh.has
    /\ "expire" \notin DOMAIN last_refresh.body.v
    /\ last_refresh.now > 0
    /\ token_expire_time = PyTime(last_refresh.now + 7140)
    /\ \E c \in Callers : ServedFromCache(c) /\ calls[c].now > last_refresh.now

\* C8: a get_access_token whose credential exchange fails returns "" and
\* leaves the cached token and the cached expiry as they were before the call.
C8_FailureKeepsCache ==
    \A c \in Callers :
        (Answered(c) /\ calls[c].resp # Idle /\ TokenExchangeFailed(calls[c].resp)) =>
            /\ calls[c].tok = Return(PyStr(""))
            /\ <<access_token, token_expire_time>> = calls[c].before

\* A value send_message reports a failure with: {"error": ...}, or the
\* platform's own answer with a code other than 0.
IsErrorValue(v) ==
    /\ v.t = "dict"
    /\ \/ "error" \in DOMAIN v.v
       \/ ("code" \in DOMAIN v.v /\ v.v["code"] # PyInt(0))
SendFailed(resp) ==
    \/ resp.kind \in {"exception", "status", "notjson"}
    \/ resp.kind = "json" /\ resp.j.t # "dict"
    \/ resp.kind = "json" /\ resp.j.t = "dict" /\ resp.j.v["code"] # PyInt(0)

\* C9: send_message never raises; when get_access_token gave the empty
\* string it returns an error value and issues no send request; when the
\* send request fails it returns an error value.
C9_SendFailsGracefully ==
    \A c \in Callers :
        (Answered(c) /\ calls[c].op = "send_message") =>
            /\ calls[c].ret.kind = "return"
            /\ ~Truthy(calls[c].tok.value) =>
                  /\ calls[c].nsend = 0
                  /\ calls[c].ret = Return(NoTokenError)
                  /\ IsErrorValue(calls[c].ret.value)
            /\ (calls[c].sresp # Idle /\ SendFailed(calls[c].sresp)) =>
                  IsErrorValue(calls[c].ret.value)

C9_Witness ==
    \E c \in Callers :
        /\ Answered(c) /\ calls[c].op = "send_message"
        /\ calls[c].resp = [kind |-> "status"]
        /\ calls[c].tok = Return(PyStr(""))
        /\ calls[c].nsend = 0
        /\ "error" \in DOMAIN calls[c].ret.value.v

C9_WitnessSendFails ==
    \E c \in Callers :
        /\ Answered(c) /\ calls[c].op = "send_message"
        /\ calls[c].nsend = 1
        /\ calls[c].sresp = [kind |-> "exception"]
        /\ "error" \in DOMAIN calls[c].ret.value.v

(***************************************************************************)
(* Claims about the router (checked under SpecRouter)                      *)
(***************************************************************************)
\* The events whose text is l \o core \o r: the content a mapping, a str that
\* is not JSON, or (no raw line break inside) the JSON encoding of the mapping.
EventsOfText(l, core, r) ==
    LET t == l \o core \o r
        contents == {PyDict([text |-> PyStr(t)]), PyStr(t)}
                        \cup (IF r = "" THEN {PyStr("{\"text\": \"" \o t \o "\"}")}
                              ELSE {})
    IN  {PyDict([message |-> PyDict([content |-> c])]) : c \in contents}
\* The event being handled carries `core` with whitespace around it.
HandlingText(core) ==
    /\ router_pc # "idle"
    /\ \E l \in LeftPads, r \in RightPads : event \in EventsOfText(l, core, r)
OnlyTool(name) ==
    /\ router_pc \in {"await_tool", "done"}
    /\ tool_calls = <<<<PyStr(name), PyNone>>>>
    /\ resolver_calls = <<>>

\* C10: on the trimmed text, "/hi" and every letter-case variant of "hi"
\* invoke say_hi, "/time" and U+65F6 U+95F4 invoke get_time, "/help" and
\* U+5E2E U+52A9 return the help text without any tool; none of these calls
\* the resolver; the other aliases are case-sensitive, so "/HI", "/Hi",
\* "/Time", "/TIME", "/Help" go to the resolver as any other text does.
C10_LiteralCommands ==
    /\ \A core \in {"/hi", "hi", "Hi", "hI", "HI"} :
          HandlingText(core) => OnlyTool("say_hi")
    /\ \A core \in {"/time", "\\u65f6\\u95f4"} :
          HandlingText(core) => OnlyTool("get_time")
    /\ \A core \in {"/help", "\\u5e2e\\u52a9"} :
          HandlingText(core) =>
              /\ router_pc = "done"
              /\ reply = Return(HelpText)
              /\ tool_calls = <<>>
              /\ resolver_calls = <<>>
    /\ \A core \in {"/HI", "/Hi", "/Time", "/TIME", "/Help", "hello", "high"} :
          HandlingText(core) =>
              /\ resolver_calls = <<core>>
              /\ router_pc = "await_completion" => tool_calls = <<>>

C10_Witness ==
    /\ router_pc = "done"
    /\ event = PyDict([message |-> PyDict([content |-> PyStr(" HI\n")])])
    /\ tool_calls = <<<<PyStr("say_hi"), PyNone>>>>
    /\ resolver_calls = <<>>
    /\ mcp_response = [kind |-> "server"]
    /\ reply = Return("hi")

\* The completion output is a well-formed tools/call envelope: a mapping
\* whose method is "tools/call" and whose params is a mapping with a name.
WellFormedEnvelope(comp) ==
    /\ comp.kind = "json"
    /\ comp.j.t = "dict"
    /\ "method" \in DOMAIN comp.j.v /\ comp.j.v["method"] = PyStr("tools/call")
    /\ "params" \in DOMAIN comp.j.v /\ comp.j.v["params"].t = "dict"
    /\ "name" \in DOMAIN comp.j.v["params"].v
\* The completion call of the event being handled has ended.
Resolved == completion # Idle

\* C11: when the completion output is not JSON, or is not a well-formed
\* tools/call envelope (no params, another method, not a mapping),
\* handle_message invokes no tool and returns the fallback reply that echoes
\* the text, never the processing-error reply.
C11_NoIntentFallsBack ==
    (Resolved /\ ~WellFormedEnvelope(completion)) =>
        /\ router_pc = "done"
        /\ tool_calls = <<>>
        /\ reply = Return(FallbackReply(resolver_calls[1]))

\* The processing-error reply starts with this.
ErrorReplyPrefix == ErrorReply([msg |-> <<>>])
IsErrorReply(s) == StartsWith(s, ErrorReplyPrefix)
\* An exception was raised somewhere in the chain: in normalization, inside
\* the resolver, on reading the resolved envelope, or inside call_mcp_tool.
ResolverFault == Resolved /\ completion.kind \in {"exception", "notjson"}
EnvelopeFault ==
    /\ Resolved /\ completion.kind = "json"
    /\ completion.j \in {PyDict([method |-> PyStr("tools/call")]),
                         PyDict([method |-> PyStr("tools/call"), params |-> EmptyDict]),
                         PyList(<<PyInt(1)>>)}
ToolFault == mcp_response \in NetworkFailures
FaultInChain ==
    \/ NormalizedText(event).kind = "raise"
    \/ ResolverFault
    \/ EnvelopeFault
    \/ ToolFault

\* C12 as stated: handle_message returns a string for every event, and an
\* exception raised anywhere in normalization, resolution or tool invocation
\* ends as the processing-error reply.
C12_AllFaultsBecomeErrorReply ==
    router_pc = "done" =>
        /\ reply.kind = "return"
        /\ reply.value \in STRING
        /\ FaultInChain => IsErrorReply(reply.value)

\* C12, amended: handle_message returns a string for every event; an
\* exception raised in its own body (normalization, reading the resolved
\* envelope) ends as the processing-error reply with the exception's message,
\* a failure inside the resolver ends as the fallback reply, and a failure
\* inside call_mcp_tool ends as call_mcp_tool's own failure text.
C12_NeverRaises ==
    router_pc = "done" =>
        /\ reply.kind = "return"
        /\ reply.value \in STRING
        /\ LET text == NormalizedText(event)
           IN  text.kind = "raise" =>
                  reply = Return(ErrorReplyPrefix \o Concat(text.msg))
        /\ event = PyNone =>
              reply = Return(ErrorReplyPrefix
                                \o "'NoneType' object has no attribute 'get'")
        /\ EnvelopeFault =>
              reply = Return(ErrorReplyPrefix \o
                        (CASE completion.j = PyList(<<PyInt(1)>>) ->
                                    "'list' object has no attribute 'get'"
                           [] completion.j = PyDict([method |-> PyStr("tools/call")]) ->
                                    "'params'"
                           [] OTHER -> "'name'"))
        /\ ResolverFault => reply = Return(FallbackReply(resolver_calls[1]))
        /\ ToolFault =>
              /\ StartsWith(reply.value, CallFailedPrefix)
              /\ ~IsErrorReply(reply.value)

C12_Witness ==
    /\ router_pc = "done"
    /\ event = PyDict([message |-> PyDict([content |-> PyStr("123")])])
    /\ tool_calls = <<>>
    /\ resolver_calls = <<>>
    /\ reply = Return(ErrorReplyPrefix \o "'int' object has no attribute 'get'")

\* The arguments of a well-formed envelope, the empty mapping when absent.
EnvelopeArguments(comp) ==
    IF "arguments" \in DOMAIN comp.j.v["params"].v
    THEN comp.j.v["params"].v["arguments"]
    ELSE EmptyDict
\* The tool server answered the call with a result that has a content list.
ToolAnsweredContent ==
    /\ mcp_response \in McpResponses
    /\ mcp_response.kind = "json"
    /\ "result" \in DOMAIN mcp_response.j
    /\ "content" \in DOMAIN mcp_response.j["result"]

\* C13: when the text is no literal command and the resolver returns a
\* well-formed tools/call envelope, handle_message invokes exactly that tool
\* once with the envelope's arguments (the empty mapping when absent), and its
\* reply is the texts of the type-"text" items of the result's content, in
\* order, with nothing between them.
C13_ResolvedToolConcatenated ==
    (Resolved /\ WellFormedEnvelope(completion)) =>
        /\ router_pc \in {"await_tool", "done"}
        /\ tool_calls = <<<<completion.j.v["params"].v["name"],
                            EnvelopeArguments(completion)>>>>
        /\ (router_pc = "done" /\ ToolAnsweredContent) =>
              reply = Return(Concat(TextsOf(mcp_response.j["result"].content)))

\* The event carries its content as a str.
StringContent(ev) ==
    /\ ev.t = "dict" /\ "message" \in DOMAIN ev.v
    /\ ev.v["message"].t = "dict" /\ "content" \in DOMAIN ev.v["message"].v
    /\ ev.v["message"].v["content"].t = "str"
\* handle_message went on to routing: a literal command called its tool or
\* returned the help text, or the text was given to the resolver.
Routed ==
    \/ tool_calls # <<>>
    \/ resolver_calls # <<>>
    \/ reply = Return(HelpText)

\* C15: normalization of a str content always yields a mapping (the parsed
\* JSON, or {text: content} when parsing fails) and routing is then driven
\* by its trimmed text field, for every content string, those that are
\* valid JSON but not a mapping ("123", "null") included.
C15_ContentAlwaysMapping ==
    (router_pc # "idle" /\ StringContent(event)) =>
        /\ NormalizedText(event).kind = "return"
        /\ Routed

(***************************************************************************)
(* Claims about the intent resolver (checked under SpecClient)             *)
(***************************************************************************)
\* C14: get_mcp_json_from_gemini never raises past its own boundary: on a
\* failed completion call, an unexpected response shape or a text that is
\* not JSON it returns None.
C14_ResolverNeverRaises ==
    client.mcp_json # Idle =>
        /\ client.mcp_json.kind = "return"
        /\ (\/ client.gemini.kind # "json"
            \/ FirstCandidateText(client.gemini.j).kind = "raise"
            \/ json_loads(FirstCandidateText(client.gemini.j).value).kind = "raise")
              => client.mcp_json.value = PyNone

(***************************************************************************)
(* Claims about sequences of requests (checked under Spec)                 *)
(***************************************************************************)
\* The request is an initialize / a tools/call of say_hi with a result.
IsInitialize ==
    Called /\ ReqIsDict /\ ReqMethod = PyStr("initialize")
FirstRequest == outcome = Idle

\* C17: the dispatcher is state-free: no request changes the server's
\* fields (initialize included); a request repeated right after itself gets
\* the same response; the response to a request is what the same request
\* gets as the very first one, whatever came before; and tools/list and
\* tools/call of say_hi succeed as the first request, with no initialize.
C17_StateFree ==
    /\ [][server' = server]_vars
    /\ [][(Called /\ request' = request) => outcome' = outcome]_vars
    /\ [](Called => outcome = handle_request(
                        [name |-> "simple-mcp-server", version |-> "1.0.0"],
                        request))
    /\ [][(FirstRequest /\ (IsToolsList' \/ IsToolsCallOf("say_hi")'))
              => HasResultOnly']_vars
    /\ [][(IsInitialize /\ IsInitialize' /\ ReqGet("id", PyNone) = ReqGet("id", PyNone)')
              => outcome' = outcome]_vars

C17_Witness ==
    /\ IsToolsCallOf("say_hi")
    /\ HasResultOnly
    /\ server = [name |-> "simple-mcp-server", version |-> "1.0.0"]

(***************************************************************************)
(* Claims about SimpleMCPServer.run (checked under SpecRun)                *)
(***************************************************************************)
\* A well-formed response envelope: a result, or an error with a message.
WellFormedResponse(r) ==
    /\ "jsonrpc" \in DOMAIN r /\ "id" \in DOMAIN r
    /\ \/ "result" \in DOMAIN r /\ "error" \notin DOMAIN r
       \/ /\ "error" \in DOMAIN r /\ "result" \notin DOMAIN r
          /\ "message" \in DOMAIN r["error"]
\* run is between two lines: every line read so far has been processed.
BetweenLines == run_pc \in {"reading", "stopped"}

\* C18: every line read by run produces exactly one well-formed response
\* envelope on stdout, lines that are not JSON or not a JSON object
\* included.
C18_OneResponsePerLine ==
    /\ \A i \in DOMAIN stdout : WellFormedResponse(stdout[i])
    /\ BetweenLines => Len(stdout) = Len(consumed)

(***************************************************************************)
(* Claims about concurrent get_access_token calls (checked under           *)
(* SpecBotConcurrent)                                                      *)
(***************************************************************************)
\* C19: at every suspension point the cached token and the cached expiry
\* are both unset, or both were written by the same successful refresh
\* response; the value of one refresh is never paired with the expiry of
\* another.
C19_TokenAndExpiryPaired ==
    \/ access_token = PyNone /\ token_expire_time = PyNone
    \/ /\ last_refresh.has
       /\ access_token = last_refresh.value
       /\ token_expire_time = last_refresh.expire

\* Caller c entered get_access_token on an empty or expired cache.
EnteredOnMiss(c) ==
    /\ calls[c].pc # "idle"
    /\ \/ calls[c].before[1] = PyNone
       \/ calls[c].before[2] = PyNone
       \/ calls[c].now >= calls[c].before[2].v
\* The request of caller c is in flight.
InFlight(c) == calls[c].pc = "await_token"

\* C20: an invocation of get_access_token issues at most one
\* credential-exchange request; refreshes are not collapsed, every caller
\* that enters on an empty or expired cache issues its own request, also
\* while another one is in flight; and a caller whose own request succeeds
\* returns the token of its own response, in whatever order the requests
\* complete.
C20_OneRequestEach ==
    \A c \in Callers :
        /\ calls[c].nreq <= 1
        /\ EnteredOnMiss(c) => calls[c].nreq = 1
        /\ InFlight(c) => calls[c].nreq = 1
        /\ (Answered(c) /\ calls[c].nreq = 1
                /\ ~TokenExchangeFailed(calls[c].resp)) =>
              calls[c].ret = Return(calls[c].resp.j.v["app_access_token"])

\* Both callers entered on the empty cache, caller 2's response came first
\* and caller 1's last: each has the token of its own response.
C20_Witness ==
    /\ Answered(1) /\ Answered(2)
    /\ calls[1].before = <<PyNone, PyNone>>
    /\ calls[2].before = <<PyNone, PyNone>>
    /\ calls[1].nreq = 1 /\ calls[2].nreq = 1
    /\ calls[1].ret = Return(PyStr("tokA"))
    /\ calls[2].ret = Return(PyStr("tokB"))
    /\ access_token = PyStr("tokA")

(***************************************************************************)
(* Claims about the order and the end of SimpleMCPServer.run (checked      *)
(* under SpecRunFair)                                                      *)
(***************************************************************************)
RECURSIVE ResponsesTo(_)
\* What the lines, handled one after the other, put on stdout.
ResponsesTo(lines) ==
    IF lines = <<>> THEN <<>>
    ELSE run_line(server, Head(lines)).out \o ResponsesTo(Tail(lines))
\* The lines read and already processed.
Processed ==
    IF run_pc = "processing" THEN SubSeq(consumed, 1, Len(consumed) - 1)
    ELSE consumed
Stopped == run_pc = "stopped"

\* C21: run handles the lines one at a time and in input order: when it
\* reads the next line, what the earlier lines produce is on stdout already,
\* in their order, and at most one line is read and not yet processed; it
\* goes on after a line that is not JSON or whose handling raises; it stops
\* only at the end of input, all lines read, and stays stopped; and once the
\* peer has closed stdin it eventually stops.
C21_InOrderUntilEof ==
    /\ [](/\ stdout = ResponsesTo(Processed)
          /\ run_pc = "processing" =>
                /\ consumed # <<>>
                /\ line = consumed[Len(consumed)]
          /\ Stopped => (stdin_closed /\ stdin = <<>>))
    /\ [][(run_pc = "processing" /\ run_pc' # "processing")
              => run_pc' = "reading"]_vars
    /\ [][Stopped => Stopped']_vars
    /\ [][consumed' # consumed =>
              /\ run_pc = "reading"
              /\ consumed' = Append(consumed, Head(stdin))]_vars
    /\ (stdin_closed ~> Stopped)

\* run has stopped at the end of input after a line that is not JSON, a
\* line whose handling raised and a request answered after both.
C21_Witness ==
    /\ Stopped
    /\ consumed = <<"not json\n", "123\n", "{\"method\": \"tools/list\"}\n">>
    /\ Len(stdout) = 1
    /\ "result" \in DOMAIN stdout[1]
    /\ Len(stderr) = 3

====
